---- MODULE Spec2Model ----
(***************************************************************************)
(* The router module of the parachains runtime                             *)
(* (runtime/parachains/src/router.rs): downward message queues (DMP), the  *)
(* upward dispatch queues (UMP) with their round-robin dispatcher, and the *)
(* cleanup of outgoing paras on a session change.                          *)
(*                                                                         *)
(* Storage items are the variables, named as in decl_storage!.  A storage  *)
(* map is a total function over Paras: a key that was removed reads as the *)
(* type's default (empty Vec, (0, 0), None), exactly as `get` does.        *)
(* Option<T> is a sequence of length at most one: None is << >> and        *)
(* Some(x) is <<x>>.                                                       *)
(***************************************************************************)
EXTENDS Integers, Sequences, FiniteSets, TLC

\* ------------------------------------------------------------------ bounds

\* Most upward messages stored in RelayDispatchQueues, all paras together.
MaxQueue == 3
\* Most upward messages in one call of enact_upward_messages / check_upward_messages.
MaxBatch == 2
\* Largest preferred_dispatchable_upward_messages_step_weight the configuration holds.
MaxStepWeight == 1
\* Most downward messages accepted between two cleanups, all paras together.
MaxDmq == 2
\* Last relay-chain block number; the first is 0.
MaxBlock == 1
\* The two caps on messages, for the specification of all the calls together.
MaxQueueAll == 1
MaxDmqAll == 1

\* The para ids of the model (ParaId is a totally ordered u32 newtype).
Paras == {1, 2, 3}

\* Upward messages (UpwardMessage = Vec<u8>), of byte lengths 1 and 2.
UpwardMessages == { <<0>>, <<1, 1>> }

\* Downward messages (DownwardMessage = Vec<u8>), of byte lengths 1 and 2.
DownwardMessages == { <<7>>, <<8, 9>> }

None == << >>
Some(x) == <<x>>

\* ------------------------------------------------------------------- state

VARIABLES
    OutgoingParas,               \* Vec<ParaId>, sorted ascending
    DownwardMessageQueues,       \* ParaId => Vec<InboundDownwardMessage>
    DownwardMessageQueueHeads,   \* ParaId => Option<Hash>
    RelayDispatchQueues,         \* ParaId => VecDeque<UpwardMessage>
    RelayDispatchQueueSize,      \* ParaId => (u32, u32)
    NeedsDispatch,               \* Vec<ParaId>, sorted ascending
    NextDispatchRoundStartWith,  \* Option<ParaId>
    block_number,                \* frame_system::Module::<T>::block_number()
    last,                        \* the last call: its name, arguments and result
    accepted                     \* per para, the (block, message) pairs that
                                 \* queue_downward_message accepted since the
                                 \* para's last cleanup, oldest first

storage == <<OutgoingParas, DownwardMessageQueues, DownwardMessageQueueHeads,
             RelayDispatchQueues, RelayDispatchQueueSize, NeedsDispatch,
             NextDispatchRoundStartWith>>

vars == <<OutgoingParas, DownwardMessageQueues, DownwardMessageQueueHeads,
          RelayDispatchQueues, RelayDispatchQueueSize, NeedsDispatch,
          NextDispatchRoundStartWith, block_number, last, accepted>>

\* --------------------------------------------------------- Vec operations

\* Vec::remove(i), with i counted from 0.
VecRemove(v, i) == SubSeq(v, 1, i) \o SubSeq(v, i + 2, Len(v))

\* VecInsert with x put at the back.
VecInsert_Back(v, i, x) == Append(v, x)

\* Vec::insert(i, x), with i counted from 0.
VecInsert(v, i, x) == SubSeq(v, 1, i) \o <<x>> \o SubSeq(v, i + 1, Len(v))

\* slice::binary_search on a sorted vector: Ok(index of x) when x is an
\* element, otherwise Err(the index where x keeps the order).
BinarySearch(v, x) ==
    IF \E i \in 1..Len(v) : v[i] = x
    THEN [ok |-> TRUE, idx |-> (CHOOSE i \in 1..Len(v) : v[i] = x) - 1]
    ELSE [ok |-> FALSE, idx |-> Cardinality({i \in 1..Len(v) : v[i] < x})]

\* Vec::get(i), with i counted from 0.
VecGet(v, i) == IF i < Len(v) THEN Some(v[i + 1]) ELSE None

\* -------------------------------------------------------------------- Init

Init ==
    /\ OutgoingParas = << >>
    /\ DownwardMessageQueues = [p \in Paras |-> << >>]
    /\ DownwardMessageQueueHeads = [p \in Paras |-> None]
    /\ RelayDispatchQueues = [p \in Paras |-> << >>]
    /\ RelayDispatchQueueSize = [p \in Paras |-> <<0, 0>>]
    /\ NeedsDispatch = << >>
    /\ NextDispatchRoundStartWith = None
    /\ block_number = 0
    /\ last = [op |-> "genesis"]
    /\ accepted = [p \in Paras |-> << >>]

\* ------------------------------------------------- session change, cleanup

\* RemoveFromNeedsDispatch with the first para removed, not the one found.
RemoveFromNeedsDispatch_First(v, outgoing_para) == VecRemove(v, 0)

\* The closure given to NeedsDispatch::mutate for one outgoing para.
RemoveFromNeedsDispatch(v, outgoing_para) ==
    LET r == BinarySearch(v, outgoing_para)
    IN  IF r.ok THEN VecRemove(v, r.idx) ELSE v

\* The closure given to NextDispatchRoundStartWith::mutate for one outgoing
\* para: Option::filter keeps Some(p) when the predicate holds of p.
FilterNextDispatchRoundStartWith(v, outgoing_para) ==
    IF v # None /\ v[1] = outgoing_para THEN v ELSE None

\* CleanupPara without the removal of the message queue chain head.
CleanupPara_KeepHead(s, outgoing_para) ==
    [s EXCEPT
        !.DownwardMessageQueues[outgoing_para] = << >>,
        !.RelayDispatchQueueSize[outgoing_para] = <<0, 0>>,
        !.RelayDispatchQueues[outgoing_para] = << >>,
        !.NeedsDispatch = RemoveFromNeedsDispatch(@, outgoing_para),
        !.NextDispatchRoundStartWith =
            FilterNextDispatchRoundStartWith(@, outgoing_para)]

\* The body of `for outgoing_para in outgoing`, on the storage record s.
CleanupPara(s, outgoing_para) ==
    [s EXCEPT
        !.DownwardMessageQueues[outgoing_para] = << >>,
        !.DownwardMessageQueueHeads[outgoing_para] = None,
        !.RelayDispatchQueueSize[outgoing_para] = <<0, 0>>,
        !.RelayDispatchQueues[outgoing_para] = << >>,
        !.NeedsDispatch = RemoveFromNeedsDispatch(@, outgoing_para),
        !.NextDispatchRoundStartWith =
            FilterNextDispatchRoundStartWith(@, outgoing_para)]

RECURSIVE CleanupAll(_, _)
\* The loop over the outgoing paras, in the order of the vector.
CleanupAll(s, outgoing) ==
    IF outgoing = << >> THEN s
    ELSE CleanupAll(CleanupPara(s, Head(outgoing)), Tail(outgoing))

initializer_on_new_session ==
    LET outgoing == OutgoingParas
        s == CleanupAll(
                [DownwardMessageQueues |-> DownwardMessageQueues,
                 DownwardMessageQueueHeads |-> DownwardMessageQueueHeads,
                 RelayDispatchQueueSize |-> RelayDispatchQueueSize,
                 RelayDispatchQueues |-> RelayDispatchQueues,
                 NeedsDispatch |-> NeedsDispatch,
                 NextDispatchRoundStartWith |-> NextDispatchRoundStartWith],
                outgoing)
    IN  /\ OutgoingParas' = << >>
        /\ DownwardMessageQueues' = s.DownwardMessageQueues
        /\ DownwardMessageQueueHeads' = s.DownwardMessageQueueHeads
        /\ RelayDispatchQueueSize' = s.RelayDispatchQueueSize
        /\ RelayDispatchQueues' = s.RelayDispatchQueues
        /\ NeedsDispatch' = s.NeedsDispatch
        /\ NextDispatchRoundStartWith' = s.NextDispatchRoundStartWith
        /\ last' = [op |-> "initializer_on_new_session", outgoing |-> outgoing,
                    start_with |-> NextDispatchRoundStartWith,
                    \* the outgoing paras with something in every map
                    full |-> {p \in Paras :
                                /\ \E i \in 1..Len(outgoing) : outgoing[i] = p
                                /\ DownwardMessageQueues[p] # << >>
                                /\ DownwardMessageQueueHeads[p] # None
                                /\ RelayDispatchQueues[p] # << >>
                                /\ RelayDispatchQueueSize[p] # <<0, 0>>
                                /\ \E i \in 1..Len(NeedsDispatch) :
                                      NeedsDispatch[i] = p}]
        /\ accepted' = [p \in Paras |->
                           IF \E i \in 1..Len(outgoing) : outgoing[i] = p
                           THEN << >> ELSE accepted[p]]
        /\ UNCHANGED block_number

\* InsertSorted without the test for the para being there already.
InsertSorted_Again(v, id) == VecInsert(v, BinarySearch(v, id).idx, id)

\* The closure given to OutgoingParas::mutate.
InsertSorted(v, id) ==
    LET r == BinarySearch(v, id)
    IN  IF r.ok THEN v ELSE VecInsert(v, r.idx, id)

schedule_para_cleanup(id) ==
    /\ OutgoingParas' = InsertSorted(OutgoingParas, id)
    /\ last' = [op |-> "schedule_para_cleanup", para |-> id,
                \* whether the para was scheduled already
                found |-> BinarySearch(OutgoingParas, id).ok]
    /\ UNCHANGED <<DownwardMessageQueues, DownwardMessageQueueHeads,
                   RelayDispatchQueues, RelayDispatchQueueSize, NeedsDispatch,
                   NextDispatchRoundStartWith, block_number, accepted>>

\* --------------------------------------------------------------------- UMP

\* The configurations handed to check_upward_messages.
UmpConfigs ==
    [max_upward_message_num_per_candidate : {1, MaxBatch},
     max_upward_queue_count : {MaxQueue},
     max_upward_queue_size : {MaxQueue, MaxQueue + 1}]

RECURSIVE CountAndSize(_, _)
\* The `for msg in upward_messages` loop of check_upward_messages, and the
\* fold of enact_upward_messages: one more message, msg.len() more bytes.
CountAndSize(acc, upward_messages) ==
    IF upward_messages = << >> THEN acc
    ELSE CountAndSize(<<acc[1] + 1, acc[2] + Len(Head(upward_messages))>>,
                      Tail(upward_messages))

\* CheckUpwardMessages with `>=` for `>` in the test of the queue count.
CheckUpwardMessages_CountGe(config, para, upward_messages) ==
    IF Len(upward_messages) > config.max_upward_message_num_per_candidate
    THEN FALSE
    ELSE LET q == CountAndSize(RelayDispatchQueueSize[para], upward_messages)
         IN  IF \/ q[1] >= config.max_upward_queue_count
                \/ q[2] > config.max_upward_queue_size
             THEN FALSE
             ELSE TRUE

\* The result of check_upward_messages, read off the storage.
CheckUpwardMessages(config, para, upward_messages) ==
    IF Len(upward_messages) > config.max_upward_message_num_per_candidate
    THEN FALSE
    ELSE LET q == CountAndSize(RelayDispatchQueueSize[para], upward_messages)
         IN  IF \/ q[1] > config.max_upward_queue_count
                \/ q[2] > config.max_upward_queue_size
             THEN FALSE
             ELSE TRUE

check_upward_messages(config, para, upward_messages) ==
    /\ last' = [op |-> "check_upward_messages", config |-> config,
                para |-> para, msgs |-> upward_messages,
                ret |-> CheckUpwardMessages(config, para, upward_messages)]
    /\ UNCHANGED <<storage, block_number, accepted>>

\* ExtendQueue with the new messages put at the front.
ExtendQueue_Front(v, upward_messages) == upward_messages \o v

\* VecDeque::extend with the messages of the candidate, in their order.
ExtendQueue(v, upward_messages) == v \o upward_messages

\* AddToQueueSize with the count added to the bytes as well.
AddToQueueSize_CountForSize(size, extra) ==
    <<size[1] + extra[1], size[2] + extra[1]>>

\* The closure given to RelayDispatchQueueSize::mutate.
AddToQueueSize(size, extra) == <<size[1] + extra[1], size[2] + extra[2]>>

\* The weight DbWeight::reads_writes(r, w) stands for: the database reads and
\* writes it charges.
ReadsWrites(r, w) == <<r, w>>

\* `let mut weight = 0`: nothing read, nothing written.
ZeroWeight == ReadsWrites(0, 0)

enact_upward_messages(para, upward_messages) ==
    /\ IF upward_messages # << >>
       THEN LET extra == CountAndSize(<<0, 0>>, upward_messages)
            IN  /\ RelayDispatchQueues' =
                     [RelayDispatchQueues EXCEPT
                        ![para] = ExtendQueue(@, upward_messages)]
                /\ RelayDispatchQueueSize' =
                     [RelayDispatchQueueSize EXCEPT
                        ![para] = AddToQueueSize(@, extra)]
                /\ NeedsDispatch' = InsertSorted(NeedsDispatch, para)
                /\ last' = [op |-> "enact_upward_messages", para |-> para,
                            msgs |-> upward_messages,
                            ret |-> ReadsWrites(3, 3)]
       ELSE /\ UNCHANGED <<RelayDispatchQueues, RelayDispatchQueueSize,
                           NeedsDispatch>>
            /\ last' = [op |-> "enact_upward_messages", para |-> para,
                        msgs |-> upward_messages, ret |-> ZeroWeight]
    /\ UNCHANGED <<OutgoingParas, DownwardMessageQueues,
                   DownwardMessageQueueHeads, NextDispatchRoundStartWith,
                   block_number, accepted>>

\* ---------------------------------------------------------- UMP dispatcher

\* xcm::Xcm::decode.  `enum Xcm {}` has no variant, so the derived Decode
\* finds no variant for any input and returns Err.
XcmDecodeOk(upward_msg) == FALSE

\* xcm::estimate_weight and xcm::execute are `match xcm {}`: there is no
\* Xcm to pass them, and so no weight they return.
XcmEstimateWeight(upward_msg) == CHOOSE w \in {} : TRUE
XcmExecute(upward_msg) == CHOOSE w \in {} : TRUE

\* What one dequeued message adds to `weight`: the weight of executing it,
\* Ok(w) and Err(w) alike, when it decodes and its estimate is within the
\* critical weight; nothing otherwise.
DispatchWeight(upward_msg, config) ==
    IF XcmDecodeOk(upward_msg)
    THEN IF XcmEstimateWeight(upward_msg)
              <= config.dispatchable_upward_message_critical_weight
         THEN XcmExecute(upward_msg)
         ELSE 0
    ELSE 0

\* `idx = (idx + 1) % needs_dispatch.len()`
AdvanceIdx(idx, len) == (idx + 1) % len

\* StartIdx with the index binary_search proposes when the para is not found.
StartIdx_SupposedIdx(needs_dispatch, start_with) ==
    IF start_with = None THEN 0
    ELSE BinarySearch(needs_dispatch, start_with[1]).idx

\* The starting index: where NextDispatchRoundStartWith is found in
\* needs_dispatch, and 0 when it is None or not found.
StartIdx(needs_dispatch, start_with) ==
    IF start_with = None THEN 0
    ELSE LET r == BinarySearch(needs_dispatch, start_with[1])
         IN  IF r.ok THEN r.idx ELSE 0

\* `queue_cache.entry(dispatchee).or_insert_with(|| RelayDispatchQueues::get(..))`
CachedQueue(queue_cache, dispatchee) ==
    IF dispatchee \in DOMAIN queue_cache
    THEN queue_cache[dispatchee]
    ELSE RelayDispatchQueues[dispatchee]

\* RemoveDispatchee with the dispatchee left in needs_dispatch.
RemoveDispatchee_Keep(needs_dispatch, dispatchee) == needs_dispatch

\* The removal of the dispatchee whose cached queue ran empty.
RemoveDispatchee(needs_dispatch, dispatchee) ==
    LET r == BinarySearch(needs_dispatch, dispatchee)
    IN  IF r.ok THEN VecRemove(needs_dispatch, r.idx) ELSE needs_dispatch

\* One turn of the `loop` of process_pending_upward_messages from the locals
\* st: whether it ends in a `break`, and the locals after it.  st.visited
\* lists the dispatchees in the order in which a message was popped from
\* their queue, and st.popped_at the value of `weight` at each of these pops.
Turn(st, config) ==
    IF VecGet(st.needs_dispatch, st.idx) = None
    THEN [brk |-> TRUE, st |-> st]
    ELSE
      LET dispatchee == st.needs_dispatch[st.idx + 1]
          idx == AdvanceIdx(st.idx, Len(st.needs_dispatch))
      IN
      IF st.weight >= config.preferred_dispatchable_upward_messages_step_weight
      THEN [brk |-> TRUE, st |-> [st EXCEPT !.idx = idx]]
      ELSE
        LET queue == CachedQueue(st.queue_cache, dispatchee)
            some == queue # << >>
            rest == IF some THEN Tail(queue) ELSE queue
        IN  [brk |-> FALSE,
             st |->
              [needs_dispatch |->
                  IF rest = << >>
                  THEN RemoveDispatchee(st.needs_dispatch, dispatchee)
                  ELSE st.needs_dispatch,
               idx |-> idx,
               weight |-> IF some
                          THEN st.weight + DispatchWeight(Head(queue), config)
                          ELSE st.weight,
               queue_cache |->
                  [p \in DOMAIN st.queue_cache \cup {dispatchee} |->
                      IF p = dispatchee THEN rest ELSE st.queue_cache[p]],
               visited |-> IF some THEN Append(st.visited, dispatchee)
                           ELSE st.visited,
               popped_at |-> IF some THEN Append(st.popped_at, st.weight)
                             ELSE st.popped_at]]

RECURSIVE DispatchLoop(_, _)
\* One turn of the `loop`, which is evaluated once, and the turns after it:
\* from the locals st to the locals at the `break`.
LoopTurn(st, config) ==
    CHOOSE end \in { IF t.brk THEN t.st ELSE DispatchLoop(t.st, config) :
                       t \in {Turn(st, config)} } : TRUE

\* The `loop` from the locals locals0, which are evaluated once, here.
DispatchLoop(locals0, config) ==
    CHOOSE end \in { LoopTurn(st, config) : st \in {locals0} } : TRUE

\* config is what `<configuration::Module<T>>::config()` returns.
process_pending_upward_messages(config) ==
    LET start_with == NextDispatchRoundStartWith
        start == StartIdx(NeedsDispatch, start_with)
        end == DispatchLoop(
                 [needs_dispatch |-> NeedsDispatch,
                  idx |-> start,
                  weight |-> 0,
                  queue_cache |-> << >>,
                  visited |-> << >>,
                  popped_at |-> << >>],
                 config)
    IN  /\ NextDispatchRoundStartWith' = VecGet(end.needs_dispatch, end.idx)
        /\ NeedsDispatch' = end.needs_dispatch
        /\ last' = [op |-> "process_pending_upward_messages",
                    step_weight |->
                      config.preferred_dispatchable_upward_messages_step_weight,
                    start_with |-> start_with,
                    needs_dispatch |-> NeedsDispatch,
                    start |-> start,
                    weight |-> end.weight,
                    visited |-> end.visited,
                    popped_at |-> end.popped_at]
        /\ UNCHANGED <<OutgoingParas, DownwardMessageQueues,
                       DownwardMessageQueueHeads, RelayDispatchQueues,
                       RelayDispatchQueueSize, block_number, accepted>>

\* process_pending_upward_messages turn by turn.  While it runs, `last` holds
\* its locals under the name "loop"; no other call runs before it returns.
Running == last.op = "loop"

\* The call, up to the `loop`.
process_pending_upward_messages_enter(config) ==
    LET start_with == NextDispatchRoundStartWith
        start == StartIdx(NeedsDispatch, start_with)
    IN  /\ ~Running
        /\ last' = [op |-> "loop",
                    config |-> config,
                    start_with |-> start_with,
                    start |-> start,
                    st |-> [needs_dispatch |-> NeedsDispatch,
                            idx |-> start,
                            weight |-> 0,
                            queue_cache |-> << >>,
                            visited |-> << >>,
                            popped_at |-> << >>]]
        /\ UNCHANGED <<storage, block_number, accepted>>

\* A turn of the `loop` that does not end in a `break`.
process_pending_upward_messages_turn ==
    /\ Running
    /\ LET t == Turn(last.st, last.config)
       IN  /\ ~t.brk
           /\ last' = [last EXCEPT !.st = t.st]
    /\ UNCHANGED <<storage, block_number, accepted>>

\* The turn that ends in a `break`, and the two writes after the `loop`.
process_pending_upward_messages_break ==
    /\ Running
    /\ LET t == Turn(last.st, last.config)
           end == t.st
       IN  /\ t.brk
           /\ NextDispatchRoundStartWith'
                 = VecGet(end.needs_dispatch, end.idx)
           /\ NeedsDispatch' = end.needs_dispatch
           /\ last' = [op |-> "process_pending_upward_messages",
                       step_weight |->
                         last.config
                           .preferred_dispatchable_upward_messages_step_weight,
                       start_with |-> last.start_with,
                       needs_dispatch |-> NeedsDispatch,
                       start |-> last.start,
                       weight |-> end.weight,
                       visited |-> end.visited,
                       popped_at |-> end.popped_at]
    /\ UNCHANGED <<OutgoingParas, DownwardMessageQueues,
                   DownwardMessageQueueHeads, RelayDispatchQueues,
                   RelayDispatchQueueSize, block_number, accepted>>

\* --------------------------------------------------------------------- DMP

\* The SCALE encoding of a Vec<u8> shorter than 64 bytes: the compact length
\* (one byte, the length shifted left by two) and then the bytes.
Encode(msg) == <<4 * Len(msg)>> \o msg

\* Hash::default(), the all-zero hash.
ZeroHash == [zero |-> 32]

\* T::Hashing::hash_of(&msg): the hash of the encoded message.  A hash is
\* the record of what was hashed: equal hashes only of equal inputs.
MessageHash(msg) == [hashing |-> Encode(msg)]

\* BlakeTwo256::hash_of(&(prev_head, sent_at, hash of the message)).
BlakeTwo256(prev_head, sent_at, msg_hash) ==
    [blake2_256 |-> <<prev_head, sent_at, msg_hash>>]

\* `head.unwrap_or(Default::default())`
UnwrapOrDefault(head) == IF head = None THEN ZeroHash ELSE head[1]

\* NewHead with block 0 for the block the message is sent at.
NewHead_NoBlock(head, inbound) ==
    Some(BlakeTwo256(UnwrapOrDefault(head), 0, MessageHash(inbound.msg)))

\* NewHead with the zero hash for the previous head.
NewHead_FromZero(head, inbound) ==
    Some(BlakeTwo256(ZeroHash, inbound.sent_at, MessageHash(inbound.msg)))

\* The closure given to DownwardMessageQueueHeads::mutate.
NewHead(head, inbound) ==
    Some(BlakeTwo256(UnwrapOrDefault(head), inbound.sent_at,
                     MessageHash(inbound.msg)))

\* TooBig with `>=` for `>`.
TooBig_Ge(config, msg) ==
    Len(Encode(msg)) >= config.critical_downward_message_size

\* Whether queue_downward_message refuses the message.
TooBig(config, msg) == Len(Encode(msg)) > config.critical_downward_message_size

queue_downward_message(config, para, msg) ==
    IF TooBig(config, msg)
    THEN /\ last' = [op |-> "queue_downward_message", config |-> config,
                     para |-> para, msg |-> msg, ret |-> "Err"]
         /\ UNCHANGED <<storage, block_number, accepted>>
    ELSE LET inbound == [msg |-> msg, sent_at |-> block_number]
         IN  /\ DownwardMessageQueueHeads' =
                  [DownwardMessageQueueHeads EXCEPT
                     ![para] = NewHead(@, inbound)]
             /\ DownwardMessageQueues' =
                  [DownwardMessageQueues EXCEPT ![para] = Append(@, inbound)]
             /\ last' = [op |-> "queue_downward_message", config |-> config,
                         para |-> para, msg |-> msg, ret |-> "Ok"]
             /\ accepted' = [accepted EXCEPT
                                ![para] = Append(@, <<block_number, msg>>)]
             /\ UNCHANGED <<OutgoingParas, RelayDispatchQueues,
                            RelayDispatchQueueSize, NeedsDispatch,
                            NextDispatchRoundStartWith, block_number>>

\* decode_len(..).unwrap_or(0): the length of the stored queue.
dmq_length(para) == Len(DownwardMessageQueues[para])

dmq_mqc_head(para) == DownwardMessageQueueHeads[para]

\* CheckProcessedDownwardMessages with `<=` for `<` in the second test.
CheckProcessedDownwardMessages_Le(para, processed_downward_messages) ==
    LET len == dmq_length(para)
    IN  IF len > 0 /\ processed_downward_messages = 0 THEN FALSE
        ELSE IF len <= processed_downward_messages THEN FALSE
        ELSE TRUE

\* The result of check_processed_downward_messages, read off the storage.
CheckProcessedDownwardMessages(para, processed_downward_messages) ==
    LET len == dmq_length(para)
    IN  IF len > 0 /\ processed_downward_messages = 0 THEN FALSE
        ELSE IF len < processed_downward_messages THEN FALSE
        ELSE TRUE

check_processed_downward_messages(para, processed_downward_messages) ==
    /\ last' = [op |-> "check_processed_downward_messages", para |-> para,
                n |-> processed_downward_messages,
                ret |-> CheckProcessedDownwardMessages(
                            para, processed_downward_messages)]
    /\ UNCHANGED <<storage, block_number, accepted>>

\* PruneQueue with the newest messages dropped, not the oldest.
PruneQueue_Newest(q, processed_downward_messages) ==
    IF processed_downward_messages > Len(q)
    THEN << >>
    ELSE SubSeq(q, 1, Len(q) - processed_downward_messages)

\* The closure given to DownwardMessageQueues::mutate by prune_dmq.
PruneQueue(q, processed_downward_messages) ==
    IF processed_downward_messages > Len(q)
    THEN << >>
    ELSE SubSeq(q, processed_downward_messages + 1, Len(q))

prune_dmq(para, processed_downward_messages) ==
    /\ DownwardMessageQueues' =
         [DownwardMessageQueues EXCEPT
            ![para] = PruneQueue(@, processed_downward_messages)]
    /\ last' = [op |-> "prune_dmq", para |-> para,
                n |-> processed_downward_messages, ret |-> ReadsWrites(1, 1)]
    /\ UNCHANGED <<OutgoingParas, DownwardMessageQueueHeads,
                   RelayDispatchQueues, RelayDispatchQueueSize, NeedsDispatch,
                   NextDispatchRoundStartWith, block_number, accepted>>

\* One more relay-chain block, without a session change.
next_block ==
    /\ block_number' = block_number + 1
    /\ last' = [op |-> "next_block"]
    /\ UNCHANGED <<storage, accepted>>

\* --------------------------------------------------------- specifications

RECURSIVE SeqsUpTo(_, _)
\* The sequences over S of length at most n.
SeqsUpTo(S, n) ==
    IF n = 0 THEN { << >> }
    ELSE LET shorter == SeqsUpTo(S, n - 1)
         IN  shorter \cup { Append(q, x) : q \in shorter, x \in S }

\* The batches of upward messages one candidate sends.
Batches(M) == SeqsUpTo(M, MaxBatch)

\* The configurations the dispatcher reads, with a step weight of at least
\* min.
DispatcherConfigs(min) ==
    [preferred_dispatchable_upward_messages_step_weight : min..MaxStepWeight,
     dispatchable_upward_message_critical_weight : {0}]

RECURSIVE ChainLen(_)
\* The number of links of the message queue chain that ends in the hash h.
ChainLen(h) == IF h = ZeroHash THEN 0 ELSE 1 + ChainLen(h.blake2_256[1])

\* The number of downward messages accepted for p since its last cleanup.
Accepted(p) == ChainLen(UnwrapOrDefault(DownwardMessageQueueHeads[p]))

RECURSIVE Sum(_, _)
\* The sum of f[p] over the paras p in P.
Sum(f, P) ==
    IF P = {} THEN 0
    ELSE LET p == CHOOSE q \in P : TRUE IN f[p] + Sum(f, P \ {p})

\* The number of upward messages stored, all paras together.
Stored == Sum([p \in Paras |-> Len(RelayDispatchQueues[p])], Paras)

\* The number of downward messages accepted since the cleanups, all paras
\* together.
AcceptedAll == Sum([p \in Paras |-> Accepted(p)], Paras)

\* The calls of upward message passing by the paras P with messages from M,
\* at most cap messages stored, the dispatcher's step weight at least min.
UmpCalls(P, M, cap, min) ==
    \/ \E p \in P, msgs \in Batches(M) :
          /\ Stored + Len(msgs) <= cap
          /\ enact_upward_messages(p, msgs)
    \/ \E c \in DispatcherConfigs(min) : process_pending_upward_messages(c)

\* The cleanup of the paras P.
CleanupCalls(P) ==
    \/ \E p \in P : schedule_para_cleanup(p)
    \/ initializer_on_new_session

\* The configurations handed to queue_downward_message: the encoded length
\* of the shorter downward message, and of the longer.
DmpConfigs == [critical_downward_message_size : {2, 3}]

\* The calls of downward message passing for the paras P with messages from
\* M, at most cap messages accepted between two cleanups.
DmpCalls(P, M, cap) ==
    \/ \E c \in DmpConfigs, p \in P, m \in M :
          /\ AcceptedAll < cap
          /\ queue_downward_message(c, p, m)
    \/ \E p \in P, n \in 0..(cap + 1) : prune_dmq(p, n)
    \/ block_number < MaxBlock /\ next_block

\* The acceptance check of processed downward messages, for the paras P.
DmpChecks(P, cap) ==
    \E p \in P, n \in 0..(cap + 1) : check_processed_downward_messages(p, n)

\* The acceptance check of upward messages, by the paras P.
UmpChecks(P, M) ==
    \E c \in UmpConfigs, p \in P, msgs \in Batches(M) :
        check_upward_messages(c, p, msgs)

\* The paras of the specifications that let queues hold different messages.
TwoParas == {1, 2}

\* Upward message passing and cleanup.
NextUmp ==
    \/ UmpCalls(TwoParas, UpwardMessages, MaxQueue, 0)
    \/ CleanupCalls(TwoParas)

SpecUmp == Init /\ [][NextUmp]_vars

\* The enactment of upward messages with the acceptance check.
NextUmpCheck ==
    \/ \E p \in TwoParas, msgs \in Batches(UpwardMessages) :
          /\ Stored + Len(msgs) <= MaxQueue
          /\ enact_upward_messages(p, msgs)
    \/ UmpChecks(TwoParas, UpwardMessages)

SpecUmpCheck == Init /\ [][NextUmpCheck]_vars

\* Upward message passing by all the paras, with one kind of message.
NextUmp3 == UmpCalls(Paras, {<<0>>}, MaxQueue, 0)

SpecUmp3 == Init /\ [][NextUmp3]_vars

\* Upward message passing and cleanup by all the paras, with one kind of
\* message.
NextUmp3Cleanup ==
    \/ UmpCalls(Paras, {<<0>>}, MaxQueue, 0)
    \/ CleanupCalls(Paras)

SpecUmp3Cleanup == Init /\ [][NextUmp3Cleanup]_vars

\* The one configuration of the candidates that are checked before they are
\* enacted.
CheckedConfig ==
    [max_upward_message_num_per_candidate |-> MaxBatch,
     max_upward_queue_count |-> MaxQueue,
     max_upward_queue_size |-> MaxQueue + 1]

\* Upward message passing where enact_upward_messages is only called right
\* after a check_upward_messages of the same para and messages returned true.
NextUmpChecked ==
    \/ \E p \in TwoParas, msgs \in Batches(UpwardMessages) :
          check_upward_messages(CheckedConfig, p, msgs)
    \/ \E p \in TwoParas, msgs \in Batches(UpwardMessages) :
          /\ last.op = "check_upward_messages"
          /\ last.para = p
          /\ last.msgs = msgs
          /\ last.ret = TRUE
          /\ enact_upward_messages(p, msgs)
    \/ \E c \in DispatcherConfigs(0) : process_pending_upward_messages(c)

SpecUmpChecked == Init /\ [][NextUmpChecked]_vars

\* Upward message passing by all the paras, the dispatcher taken turn by
\* turn: it runs to completion within the block.
LoopStep ==
    \/ process_pending_upward_messages_turn
    \/ process_pending_upward_messages_break

NextLoop ==
    \/ \E p \in Paras, msgs \in Batches({<<0>>}) :
          /\ ~Running
          /\ Stored + Len(msgs) <= MaxQueue
          /\ enact_upward_messages(p, msgs)
    \/ \E c \in DispatcherConfigs(0) :
          process_pending_upward_messages_enter(c)
    \/ LoopStep

SpecLoop == Init /\ [][NextLoop]_vars /\ WF_vars(LoopStep)

\* Upward message passing and cleanup, the dispatcher called with a positive
\* step weight again and again: it runs in every block.
NextUmpFair ==
    \/ UmpCalls(TwoParas, UpwardMessages, MaxQueue, 1)
    \/ CleanupCalls(TwoParas)

Dispatch == \E c \in DispatcherConfigs(1) : process_pending_upward_messages(c)

SpecUmpFair == Init /\ [][NextUmpFair]_vars /\ WF_vars(Dispatch)

\* Downward message passing.
NextDmp ==
    \/ DmpCalls(TwoParas, DownwardMessages, MaxDmq)
    \/ DmpChecks(TwoParas, MaxDmq)

SpecDmp == Init /\ [][NextDmp]_vars

\* Downward message passing and cleanup.
NextDmpCleanup ==
    \/ DmpCalls(TwoParas, DownwardMessages, MaxDmq)
    \/ CleanupCalls(TwoParas)

SpecDmpCleanup == Init /\ [][NextDmpCleanup]_vars

\* All the calls that write to the storage together, each queue with one
\* kind of message.
Next ==
    \/ UmpCalls(TwoParas, {<<1, 1>>}, MaxQueueAll, 0)
    \/ DmpCalls(TwoParas, {<<7>>}, MaxDmqAll)
    \/ CleanupCalls(TwoParas)

Spec == Init /\ [][Next]_vars

\* ------------------------------------------------------------------ claims

\* Whether x is an element of the vector v.
InVec(v, x) == \E i \in 1..Len(v) : v[i] = x

\* How many times x occurs in the vector v.
Count(v, x) == Cardinality({i \in 1..Len(v) : v[i] = x})

RECURSIVE SumLen(_)
\* The summed byte length of a sequence of messages.
SumLen(msgs) ==
    IF msgs = << >> THEN 0 ELSE Len(Head(msgs)) + SumLen(Tail(msgs))

\* C1: in every reachable state, a para is in NeedsDispatch if and only if
\* its stored RelayDispatchQueues entry is non-empty.
C1_NeedsDispatchIffQueueNonEmpty ==
    \A p \in Paras : InVec(NeedsDispatch, p) <=> RelayDispatchQueues[p] # << >>

\* C2: a call of process_pending_upward_messages that dequeued n messages
\* from para p leaves the stored queue of p without its first n messages, and
\* the stored size of p lower by n messages and by their bytes.
C2_DequeuedPrefixLeavesStorage ==
    [][last'.op = "process_pending_upward_messages" =>
        \A p \in Paras :
            LET n == Count(last'.visited, p)
                q == RelayDispatchQueues[p]
            IN  n > 0 =>
                  /\ RelayDispatchQueues'[p] = SubSeq(q, n + 1, Len(q))
                  /\ RelayDispatchQueueSize'[p] =
                       <<RelayDispatchQueueSize[p][1] - n,
                         RelayDispatchQueueSize[p][2] - SumLen(SubSeq(q, 1, n))>>
      ]_vars

\* C3: a para in NeedsDispatch is in the end dequeued from, if it does not
\* leave NeedsDispatch first, when the dispatcher runs in every block with a
\* positive step weight.
C3_NoParaStarves ==
    \A p \in TwoParas :
        InVec(NeedsDispatch, p) ~>
            \/ ~InVec(NeedsDispatch, p)
            \/ /\ last.op = "process_pending_upward_messages"
               /\ InVec(last.visited, p)

\* C4: initializer_on_new_session leaves every para that was in OutgoingParas
\* with an empty downward queue, no head, an empty dispatch queue of size
\* (0, 0) and out of NeedsDispatch, and leaves OutgoingParas empty.
C4_OutgoingParasCleaned ==
    [][last'.op = "initializer_on_new_session" =>
        /\ \A p \in Paras :
              InVec(OutgoingParas, p) =>
                /\ DownwardMessageQueues'[p] = << >>
                /\ DownwardMessageQueueHeads'[p] = None
                /\ RelayDispatchQueues'[p] = << >>
                /\ RelayDispatchQueueSize'[p] = <<0, 0>>
                /\ ~InVec(NeedsDispatch', p)
        /\ OutgoingParas' = << >>
      ]_vars

\* C4's case: the session change has just cleaned a para that had messages
\* in both queues, a head, a size and a place in NeedsDispatch.
C4_Witness ==
    /\ last.op = "initializer_on_new_session"
    /\ last.full # {}

\* C5: initializer_on_new_session sets NextDispatchRoundStartWith to None
\* when it names an outgoing para, and leaves it as it is otherwise.
C5_StartWithClearedIffOutgoing ==
    [][last'.op = "initializer_on_new_session" =>
        IF /\ NextDispatchRoundStartWith # None
           /\ InVec(OutgoingParas, NextDispatchRoundStartWith[1])
        THEN NextDispatchRoundStartWith' = None
        ELSE NextDispatchRoundStartWith' = NextDispatchRoundStartWith
      ]_vars

\* C6: in every reachable state NextDispatchRoundStartWith is None or names
\* an element of NeedsDispatch.
C6_StartWithInNeedsDispatch ==
    \/ NextDispatchRoundStartWith = None
    \/ InVec(NeedsDispatch, NextDispatchRoundStartWith[1])

\* C7: in every reachable state, for every para, RelayDispatchQueueSize is
\* the number of messages in the stored RelayDispatchQueues entry and the sum
\* of their byte lengths.
C7_QueueSizeMatchesQueue ==
    \A p \in Paras :
        RelayDispatchQueueSize[p] =
            <<Len(RelayDispatchQueues[p]), SumLen(RelayDispatchQueues[p])>>

\* C7's case: the dispatcher has just dequeued from a para whose stored queue
\* holds messages of different lengths.
C7_Witness ==
    /\ last.op = "process_pending_upward_messages"
    /\ \E p \in Paras :
          /\ InVec(last.visited, p)
          /\ \E i, j \in 1..Len(RelayDispatchQueues[p]) :
                Len(RelayDispatchQueues[p][i]) # Len(RelayDispatchQueues[p][j])

\* C8: check_upward_messages returns true exactly when the batch is within
\* max_upward_message_num_per_candidate and the queue, with the batch added,
\* is within max_upward_queue_count and max_upward_queue_size; it writes
\* nothing.
C8_CheckUpwardMessages ==
    [][last'.op = "check_upward_messages" =>
        LET config == last'.config
            msgs == last'.msgs
            c == RelayDispatchQueueSize[last'.para][1]
            s == RelayDispatchQueueSize[last'.para][2]
        IN  /\ last'.ret =
                 (/\ Len(msgs) <= config.max_upward_message_num_per_candidate
                  /\ c + Len(msgs) <= config.max_upward_queue_count
                  /\ s + SumLen(msgs) <= config.max_upward_queue_size)
            /\ UNCHANGED <<storage, block_number>>
      ]_vars

\* C8's case: a batch that fills the queue exactly to max_upward_queue_count
\* has just been accepted.
C8_Witness ==
    /\ last.op = "check_upward_messages"
    /\ last.ret = TRUE
    /\ last.msgs # << >>
    /\ RelayDispatchQueueSize[last.para][1] > 0
    /\ RelayDispatchQueueSize[last.para][1] + Len(last.msgs)
         = last.config.max_upward_queue_count

\* C9: enact_upward_messages with no messages writes nothing and returns
\* weight 0; with messages it appends them in their order behind the stored
\* ones, adds their number and bytes to the size, has the para in
\* NeedsDispatch, and leaves the other paras' queues and sizes and
\* NextDispatchRoundStartWith as they are.
C9_EnactUpwardMessages ==
    [][last'.op = "enact_upward_messages" =>
        LET p == last'.para
            msgs == last'.msgs
        IN  IF msgs = << >>
            THEN /\ UNCHANGED <<storage, block_number>>
                 /\ last'.ret = ZeroWeight
            ELSE /\ RelayDispatchQueues'[p] = RelayDispatchQueues[p] \o msgs
                 /\ RelayDispatchQueueSize'[p] =
                      <<RelayDispatchQueueSize[p][1] + Len(msgs),
                        RelayDispatchQueueSize[p][2] + SumLen(msgs)>>
                 /\ InVec(NeedsDispatch', p)
                 /\ \A q \in Paras \ {p} :
                       /\ RelayDispatchQueues'[q] = RelayDispatchQueues[q]
                       /\ RelayDispatchQueueSize'[q] = RelayDispatchQueueSize[q]
                 /\ UNCHANGED NextDispatchRoundStartWith
      ]_vars

\* C9's case: messages have just been appended behind a different message
\* already stored for the para, another para holding messages too.
C9_Witness ==
    /\ last.op = "enact_upward_messages"
    /\ last.msgs # << >>
    /\ Len(RelayDispatchQueues[last.para]) > Len(last.msgs)
    /\ RelayDispatchQueues[last.para][1] # last.msgs[1]
    /\ \E q \in Paras \ {last.para} : RelayDispatchQueues[q] # << >>

\* C10: check_processed_downward_messages(P, n) returns true exactly when
\* the queue of P is empty and n = 0, or holds L > 0 messages and
\* 1 <= n <= L; it writes nothing.
C10_CheckProcessedDownwardMessages ==
    [][last'.op = "check_processed_downward_messages" =>
        LET L == Len(DownwardMessageQueues[last'.para])
            n == last'.n
        IN  /\ last'.ret = ((L = 0 /\ n = 0) \/ (L > 0 /\ 1 <= n /\ n <= L))
            /\ UNCHANGED <<storage, block_number>>
      ]_vars

\* C10's case: a count equal to the length of a queue of two messages has
\* just been accepted.
C10_Witness ==
    /\ last.op = "check_processed_downward_messages"
    /\ last.ret = TRUE
    /\ last.n = 2
    /\ Len(DownwardMessageQueues[last.para]) = 2

\* C11: queue_downward_message returns an error exactly when the encoded
\* message is longer than critical_downward_message_size, and a call that
\* returns an error changes nothing.
C11_QueueDownwardMessageError ==
    [][last'.op = "queue_downward_message" =>
        /\ (last'.ret = "Err") <=>
              (Len(Encode(last'.msg))
                 > last'.config.critical_downward_message_size)
        /\ last'.ret = "Err" => UNCHANGED <<storage, block_number>>
      ]_vars

\* C11's case: a message one byte over the critical size has just been
\* refused for a para whose queue holds a message.
C11_Witness ==
    /\ last.op = "queue_downward_message"
    /\ last.ret = "Err"
    /\ Len(Encode(last.msg)) = last.config.critical_downward_message_size + 1
    /\ DownwardMessageQueues[last.para] # << >>
    /\ DownwardMessageQueueHeads[last.para] # None

\* C12: a successful queue_downward_message(config, P, msg) at block B puts
\* (msg, sent_at = B) at the back of P's queue, sets P's head to the hash of
\* (the previous head or the zero hash, B, the hash of msg), and leaves the
\* queues and heads of the other paras as they are.
C12_QueueDownwardMessageAppends ==
    [][(last'.op = "queue_downward_message" /\ last'.ret = "Ok") =>
        LET P == last'.para
            prev == IF DownwardMessageQueueHeads[P] = None
                    THEN ZeroHash
                    ELSE DownwardMessageQueueHeads[P][1]
        IN  /\ DownwardMessageQueues'[P] =
                 DownwardMessageQueues[P]
                    \o <<[msg |-> last'.msg, sent_at |-> block_number]>>
            /\ Len(DownwardMessageQueues'[P]) = Len(DownwardMessageQueues[P]) + 1
            /\ DownwardMessageQueueHeads'[P] =
                 Some(BlakeTwo256(prev, block_number, MessageHash(last'.msg)))
            /\ \A Q \in Paras \ {P} :
                  /\ DownwardMessageQueues'[Q] = DownwardMessageQueues[Q]
                  /\ DownwardMessageQueueHeads'[Q] = DownwardMessageQueueHeads[Q]
      ]_vars

\* C12's case: a message has just been accepted behind a different message
\* that was sent at an earlier block.
C12_Witness ==
    /\ last.op = "queue_downward_message"
    /\ last.ret = "Ok"
    /\ LET q == DownwardMessageQueues[last.para]
       IN  /\ Len(q) = 2
           /\ q[2].msg = last.msg
           /\ q[1].msg # q[2].msg
           /\ q[1].sent_at < q[2].sent_at

\* C13: prune_dmq(P, n) on a queue of L messages leaves the last L - n in
\* their order when n <= L, and none when n > L; after a
\* check_processed_downward_messages(P, n) that returned true the length is
\* L - n; the queues of the other paras are as they were.
C13_PruneDmq ==
    [][last'.op = "prune_dmq" =>
        LET P == last'.para
            n == last'.n
            q == DownwardMessageQueues[P]
            L == Len(q)
        IN  /\ n <= L =>
                  /\ Len(DownwardMessageQueues'[P]) = L - n
                  /\ \A i \in 1..(L - n) :
                        DownwardMessageQueues'[P][i] = q[n + i]
            /\ n = 0 => DownwardMessageQueues' = DownwardMessageQueues
            /\ n > L => DownwardMessageQueues'[P] = << >>
            /\ ( /\ last.op = "check_processed_downward_messages"
                 /\ last.para = P /\ last.n = n /\ last.ret = TRUE )
                  => Len(DownwardMessageQueues'[P]) = L - n
            /\ \A Q \in Paras \ {P} :
                  DownwardMessageQueues'[Q] = DownwardMessageQueues[Q]
      ]_vars

\* C13's case: the older of two different messages has just been pruned.
C13_Witness ==
    /\ last.op = "prune_dmq"
    /\ last.n = 1
    /\ LET q == DownwardMessageQueues[last.para]
           a == accepted[last.para]
       IN  /\ Len(a) = 2
           /\ a[1][2] # a[2][2]
           /\ Len(q) = 1
           /\ q[1].msg = a[2][2]

RECURSIVE MqcFold(_, _)
\* The message queue chain from the head `head` over the (block, message)
\* pairs of links, oldest first.
MqcFold(head, links) ==
    IF links = << >> THEN head
    ELSE MqcFold(BlakeTwo256(head, Head(links)[1], MessageHash(Head(links)[2])),
                 Tail(links))

\* C14: in every reachable state the head of a para is None if and only if
\* no downward message was accepted for it since its last cleanup, and is
\* otherwise the chain folded from the zero hash over the accepted (block,
\* message) pairs; a para with a non-empty queue has a head; prune_dmq leaves
\* the heads as they are.
C14_HeadIsChainOfAccepted ==
    /\ [](\A p \in Paras :
            /\ DownwardMessageQueueHeads[p] = None <=> accepted[p] = << >>
            /\ accepted[p] # << >> =>
                  DownwardMessageQueueHeads[p]
                     = Some(MqcFold(ZeroHash, accepted[p]))
            /\ DownwardMessageQueues[p] # << >> =>
                  DownwardMessageQueueHeads[p] # None)
    /\ [][last'.op = "prune_dmq" => UNCHANGED DownwardMessageQueueHeads]_vars

\* C14's case: the queue of a para has just been pruned empty after two
\* messages were accepted for it at different blocks, and the head is there.
C14_Witness ==
    /\ last.op = "prune_dmq"
    /\ last.n > 0
    /\ DownwardMessageQueues[last.para] = << >>
    /\ Len(accepted[last.para]) = 2
    /\ accepted[last.para][1][1] < accepted[last.para][2][1]
    /\ DownwardMessageQueueHeads[last.para] # None

\* C15: a call of process_pending_upward_messages with
\* NextDispatchRoundStartWith naming a para that is not in NeedsDispatch
\* starts at index 0, so that the first para it dequeues from is the smallest
\* of NeedsDispatch, and leaves NextDispatchRoundStartWith None or an element
\* of the NeedsDispatch it stores.
C15_StartWithNotFoundStartsAtZero ==
    [][( /\ last'.op = "process_pending_upward_messages"
         /\ NextDispatchRoundStartWith # None
         /\ ~InVec(NeedsDispatch, NextDispatchRoundStartWith[1]) ) =>
        /\ last'.start = 0
        /\ last'.visited # << >> => last'.visited[1] = NeedsDispatch[1]
        /\ \/ NextDispatchRoundStartWith' = None
           \/ InVec(NeedsDispatch', NextDispatchRoundStartWith'[1])
      ]_vars

\* C15's case: the dispatcher has just dequeued from a NeedsDispatch whose
\* paras are all smaller than the para NextDispatchRoundStartWith named.
C15_Witness ==
    /\ last.op = "process_pending_upward_messages"
    /\ last.start_with # None
    /\ last.needs_dispatch # << >>
    /\ \A i \in 1..Len(last.needs_dispatch) :
          last.needs_dispatch[i] < last.start_with[1]
    /\ last.visited # << >>

\* C16: a call of process_pending_upward_messages with NeedsDispatch empty
\* leaves the whole storage, NextDispatchRoundStartWith included, as it was.
C16_EmptyNeedsDispatchNoChange ==
    [][( /\ last'.op = "process_pending_upward_messages"
         /\ NeedsDispatch = << >> ) =>
        UNCHANGED <<storage, block_number>>
      ]_vars

\* C17: schedule_para_cleanup(P) with P scheduled already, whatever other
\* paras were scheduled since, leaves OutgoingParas as it is; every
\* schedule_para_cleanup has P in OutgoingParas afterwards and, like a block
\* that passes without a session change, leaves the queues, heads, sizes,
\* NeedsDispatch and NextDispatchRoundStartWith as they are.
C17_ScheduleParaCleanupIdempotent ==
    [][last'.op \in {"schedule_para_cleanup", "next_block"} =>
        /\ UNCHANGED <<DownwardMessageQueues, DownwardMessageQueueHeads,
                       RelayDispatchQueues, RelayDispatchQueueSize,
                       NeedsDispatch, NextDispatchRoundStartWith>>
        /\ last'.op = "schedule_para_cleanup" =>
              /\ InVec(OutgoingParas, last'.para) =>
                    OutgoingParas' = OutgoingParas
              /\ Count(OutgoingParas', last'.para) = 1
              /\ \A q \in Paras \ {last'.para} :
                    Count(OutgoingParas', q) = Count(OutgoingParas, q)
        /\ last'.op = "next_block" => UNCHANGED OutgoingParas
      ]_vars

\* C17's case: a para that holds messages has just been scheduled a second
\* time, another para having been scheduled as well.
C17_Witness ==
    /\ last.op = "schedule_para_cleanup"
    /\ last.found
    /\ Len(OutgoingParas) = 2
    /\ \/ DownwardMessageQueues[last.para] # << >>
       \/ RelayDispatchQueues[last.para] # << >>

C19_LoopStopsOnBudgetOrEmpty ==
    [][last'.op = "process_pending_upward_messages" =>
        /\ \A i \in 1..Len(last'.popped_at) :
              last'.popped_at[i] < last'.step_weight
        /\ last'.weight < last'.step_weight => NeedsDispatch' = << >>
      ]_vars

\* Whether c comes after a and before b in the cyclic ascending order of the
\* para ids (every c other than a does when b = a).
CyclicBetween(a, c, b) ==
    IF a < b THEN a < c /\ c < b
    ELSE c # a /\ (c > a \/ c < b)

\* C20: in one call of process_pending_upward_messages, between a para the
\* dispatcher dequeues from and the para it dequeues from next there is, in
\* the cyclic ascending order, no para that is still in NeedsDispatch: the
\* paras of the NeedsDispatch at the start of the call that have not been
\* dequeued from so far are all still in it.
C20_NoParaSkippedInRound ==
    [][last'.op = "process_pending_upward_messages" =>
        LET visited == last'.visited
        IN  \A i \in 1..(Len(visited) - 1) :
              \A c \in Paras :
                  ( /\ InVec(NeedsDispatch, c)
                    /\ ~InVec(SubSeq(visited, 1, i), c) )
                  => ~CyclicBetween(visited[i], c, visited[i + 1])
      ]_vars

\* C21: process_pending_upward_messages, once called, returns: from every
\* state in which its loop runs, a state is reached in which it has returned,
\* whatever the budget, with every message dropped at weight 0.
C21_DispatcherTerminates ==
    Running ~> last.op = "process_pending_upward_messages"

\* C21's case: the dispatcher has returned, below a positive budget, after
\* it dequeued from every para of a NeedsDispatch of three.
C21_Witness ==
    /\ last.op = "process_pending_upward_messages"
    /\ last.weight < last.step_weight
    /\ Len(last.needs_dispatch) = 3
    /\ \A p \in Paras : InVec(last.visited, p)

\* Whether the vector v of para ids is strictly ascending.
StrictlyAscending(v) == \A i \in 1..(Len(v) - 1) : v[i] < v[i + 1]

\* C22: in every reachable state OutgoingParas and NeedsDispatch are
\* strictly ascending by para id.
C22_VectorsStrictlyAscending ==
    /\ StrictlyAscending(OutgoingParas)
    /\ StrictlyAscending(NeedsDispatch)

\* C22's case: a para has just been scheduled that is smaller than the two
\* paras scheduled before it, while NeedsDispatch holds all three paras.
C22_Witness ==
    /\ last.op = "schedule_para_cleanup"
    /\ ~last.found
    /\ Len(OutgoingParas) = 3
    /\ last.para = OutgoingParas[1]
    /\ Len(NeedsDispatch) = 3

\* C23: when every enact_upward_messages follows a check_upward_messages
\* that returned true under one configuration, in every reachable state the
\* stored count and bytes of every para are within max_upward_queue_count
\* and max_upward_queue_size, and a para that the dispatcher has dequeued all
\* messages of (it is out of NeedsDispatch) passes check_upward_messages with
\* every batch that is within the three limits by itself.
C23_CapsHoldAndParaCanSendAgain ==
    \A P \in Paras :
        /\ RelayDispatchQueueSize[P][1] <= CheckedConfig.max_upward_queue_count
        /\ RelayDispatchQueueSize[P][2] <= CheckedConfig.max_upward_queue_size
        /\ ~InVec(NeedsDispatch, P) =>
              \A msgs \in Batches(UpwardMessages) :
                  ( /\ Len(msgs)
                         <= CheckedConfig.max_upward_message_num_per_candidate
                    /\ Len(msgs) <= CheckedConfig.max_upward_queue_count
                    /\ SumLen(msgs) <= CheckedConfig.max_upward_queue_size )
                  => CheckUpwardMessages(CheckedConfig, P, msgs)

====
